---- MODULE Spec2Model ----
(***************************************************************************)
(* Model of the sequential crawl-and-report pipeline of                    *)
(* src/Module3_WebCrawler_NBA/nba_crawler.py (class NBAStatsCrawler):      *)
(* crawl_page, crawl_multiple and generate_report.                         *)
(*                                                                         *)
(* The collaborators (HTTP session, HTML parser, file system, clock) are   *)
(* the environment: every crawl_page call draws one Env record saying what *)
(* session.get, BeautifulSoup and open/write do for that call.             *)
(* Durations are integers in milliseconds; the report's "{avg_time:.2f}"   *)
(* is an integer number of hundredths of a second.                         *)
(* The 'crawled_at' timestamp of a record is not modelled.                 *)
(***************************************************************************)
EXTENDS Integers, Sequences, FiniteSets, TLC

VARIABLES
    pc,            \* where the caller is: idle, loop, returned, raised, ...
    urls_arg,      \* the list handed to crawl_multiple
    max_pages,     \* the cap handed to crawl_multiple (None or an int)
    urls,          \* the local urls after the slice
    results,       \* the accumulator of crawl_multiple
    calls,         \* one entry per crawl_page call, in call order
    rawfiles,      \* the files written under data/raw
    results_file,  \* data/processed/crawl_results.json
    file_at_start, \* results_file as crawl_multiple found it
    ret,           \* the value the last call returned to its caller
    exc,           \* the exception that left the last call, or "none"
    report         \* the value of generate_report(results) in main

vars == <<pc, urls_arg, max_pages, urls, results, calls, rawfiles,
          results_file, file_at_start, ret, exc, report>>

(* ------------------------------ bounds ------------------------------- *)

\* longest target list handed to crawl_multiple
MaxUrls == 3
\* largest cap (max_pages) handed to crawl_multiple
MaxCap == 3

(* ------------------------- program constants ------------------------- *)

\* time.sleep(2) in the finally clause of crawl_page
PacingDelay == 2
\* the only status crawl_page accepts
HttpOk == 200

(* --------------------------- Python values --------------------------- *)

None == [py |-> "None"]
Str(s) == [py |-> "str", s |-> s]

\* truthiness of the value crawl_page returns (None or a non-empty dict)
Truthy(v) == v # None

Min(a, b) == IF a < b THEN a ELSE b

PyInt(n) == [py |-> "int", n |-> n]

RECURSIVE SumSeq(_)
\* sum(...) over a sequence of integers
SumSeq(s) == IF s = <<>> THEN 0 ELSE Head(s) + SumSeq(Tail(s))

(* ---------------------------- environment ---------------------------- *)

URLs == {"https://www.nba.com", "https://www.nba.com/stats"}

\* url.replace('https://', '').replace('/', '_') + '.html'
RawFileName(url) ==
    CASE url = "https://www.nba.com"       -> "www.nba.com.html"
      [] url = "https://www.nba.com/stats" -> "www.nba.com_stats.html"

\* what the parser finds in a page: soup.title, soup.title.string,
\* len(find_all('table')), len(find_all('a')), len(response.content)
DocHome     == [has_title |-> TRUE, title_string |-> Str("NBA Home"),
                tables |-> 2, links |-> 5, length |-> 9]
DocNoTitle  == [has_title |-> FALSE, title_string |-> None,
                tables |-> 0, links |-> 1, length |-> 4]
DocNoString == [has_title |-> TRUE, title_string |-> None,
                tables |-> 1, links |-> 0, length |-> 6]
Docs == {DocHome, DocNoTitle, DocNoString}

\* time.time() - start_time, in milliseconds
ElapsedVals == {0, 4, 13}

HttpErrorCodes == {404, 500}

MkEnv(g, sc, p, d, e, w) ==
    [get |-> g, status_code |-> sc, parse |-> p, doc |-> d, elapsed |-> e,
     write |-> w]

EnvTimeout    == MkEnv("Timeout", 0, "ok", DocNoTitle, 0, "ok")
EnvConnError  == MkEnv("ConnectionError", 0, "ok", DocNoTitle, 0, "ok")
EnvHttp(sc)   == MkEnv("response", sc, "ok", DocNoTitle, 0, "ok")
EnvParseError == MkEnv("response", HttpOk, "error", DocNoTitle, 0, "ok")
EnvWriteError == MkEnv("response", HttpOk, "ok", DocHome, 4, "OSError")
EnvOk(d, e)   == MkEnv("response", HttpOk, "ok", d, e, "ok")

FailEnvs == {EnvTimeout, EnvConnError, EnvParseError, EnvWriteError}
              \cup {EnvHttp(sc) : sc \in HttpErrorCodes}
OkEnvs == {EnvOk(DocHome, 4), EnvOk(DocNoTitle, 13), EnvOk(DocNoString, 0)}
Envs == FailEnvs \cup OkEnvs

(* ----------------------------- crawl_page ---------------------------- *)

\* the dict built at "Step 4"
PageData(url, env) ==
    [url |-> url,
     title |-> IF env.doc.has_title THEN env.doc.title_string
               ELSE Str("No title"),
     status_code |-> env.status_code,
     num_tables |-> env.doc.tables,
     num_links |-> env.doc.links,
     content_length |-> env.doc.length,
     crawl_time_seconds |-> env.elapsed]

\* TryBody that writes the raw page whatever save_html says
TryBodyIgnoreSaveFlag(url, save_html, env) ==
    IF env.get # "response"
    THEN [raised |-> env.get, ret |-> None, events |-> <<"get">>,
          raw |-> {}, slept |-> 0]
    ELSE IF env.status_code # HttpOk
    THEN [raised |-> "none", ret |-> None,
          events |-> <<"get", "print_http_error">>, raw |-> {}, slept |-> 0]
    ELSE IF env.parse # "ok"
    THEN [raised |-> "ParseError", ret |-> None,
          events |-> <<"get", "parse">>, raw |-> {}, slept |-> 0]
    ELSE IF env.write # "ok"
    THEN [raised |-> "OSError", ret |-> None,
          events |-> <<"get", "parse", "print_success", "open_raw">>,
          raw |-> {}, slept |-> 0]
    ELSE [raised |-> "none", ret |-> PageData(url, env),
          events |-> <<"get", "parse", "print_success", "open_raw",
                       "write_raw", "print_saved">>,
          raw |-> {RawFileName(url)}, slept |-> 0]

\* TryBody without "if response.status_code != 200: return None"
TryBodyNoStatusCheck(url, save_html, env) ==
    IF env.get # "response"
    THEN [raised |-> env.get, ret |-> None, events |-> <<"get">>,
          raw |-> {}, slept |-> 0]
    ELSE IF env.parse # "ok"
    THEN [raised |-> "ParseError", ret |-> None,
          events |-> <<"get", "parse">>, raw |-> {}, slept |-> 0]
    ELSE IF ~save_html \/ env.write = "ok"
    THEN [raised |-> "none", ret |-> PageData(url, env),
          events |-> <<"get", "parse", "print_success">>,
          raw |-> IF save_html THEN {RawFileName(url)} ELSE {}, slept |-> 0]
    ELSE [raised |-> "OSError", ret |-> None,
          events |-> <<"get", "parse", "print_success", "open_raw">>,
          raw |-> {}, slept |-> 0]

\* the body of the try block: what it raises, what it returns when it
\* raises nothing, the steps it took, the raw file it wrote
TryBody(url, save_html, env) ==
    IF env.get # "response"
    THEN [raised |-> env.get, ret |-> None, events |-> <<"get">>,
          raw |-> {}, slept |-> 0]
    ELSE IF env.status_code # HttpOk
    THEN [raised |-> "none", ret |-> None,
          events |-> <<"get", "print_http_error">>, raw |-> {}, slept |-> 0]
    ELSE IF env.parse # "ok"
    THEN [raised |-> "ParseError", ret |-> None,
          events |-> <<"get", "parse">>, raw |-> {}, slept |-> 0]
    ELSE IF ~save_html
    THEN [raised |-> "none", ret |-> PageData(url, env),
          events |-> <<"get", "parse", "print_success">>, raw |-> {}, slept |-> 0]
    ELSE IF env.write # "ok"
    THEN [raised |-> "OSError", ret |-> None,
          events |-> <<"get", "parse", "print_success", "open_raw">>,
          raw |-> {}, slept |-> 0]
    ELSE [raised |-> "none", ret |-> PageData(url, env),
          events |-> <<"get", "parse", "print_success", "open_raw",
                       "write_raw", "print_saved">>,
          raw |-> {RawFileName(url)}, slept |-> 0]

\* Handlers whose "except Exception" fetches the page a second time
HandlersRetryOnce(b) ==
    IF b.raised = "none" THEN b
    ELSE IF b.raised = "Timeout"
    THEN [b EXCEPT !.raised = "none", !.ret = None,
                   !.events = Append(b.events, "print_timed_out")]
    ELSE [b EXCEPT !.raised = "none", !.ret = None,
                   !.events = b.events \o <<"print_error", "get">>]

\* Handlers with only "except requests.exceptions.Timeout"
HandlersTimeoutOnly(b) ==
    IF b.raised = "Timeout"
    THEN [b EXCEPT !.raised = "none", !.ret = None,
                   !.events = Append(b.events, "print_timed_out")]
    ELSE b

\* Handlers whose "except Exception" reports the error and raises it again
HandlersReraise(b) ==
    IF b.raised = "none" THEN b
    ELSE IF b.raised = "Timeout"
    THEN [b EXCEPT !.raised = "none", !.ret = None,
                   !.events = Append(b.events, "print_timed_out")]
    ELSE [b EXCEPT !.events = Append(b.events, "print_error")]

\* Handlers with "except Exception" placed before the Timeout clause
HandlersGenericFirst(b) ==
    IF b.raised = "none" THEN b
    ELSE [b EXCEPT !.raised = "none", !.ret = None,
                   !.events = Append(b.events, "print_error")]

\* except requests.exceptions.Timeout / except Exception
Handlers(b) ==
    IF b.raised = "none" THEN b
    ELSE IF b.raised = "Timeout"
    THEN [b EXCEPT !.raised = "none", !.ret = None,
                   !.events = Append(b.events, "print_timed_out")]
    ELSE [b EXCEPT !.raised = "none", !.ret = None,
                   !.events = Append(b.events, "print_error")]

\* the sleep as the last statement of the try block instead of a finally
FinallySuccessOnly(h) ==
    IF h.ret # None
    THEN [h EXCEPT !.events = Append(h.events, "sleep"),
                   !.slept = h.slept + PacingDelay]
    ELSE h

\* finally: time.sleep(2)
Finally(h) ==
    [h EXCEPT !.events = Append(h.events, "sleep"),
              !.slept = h.slept + PacingDelay]

CrawlPage(url, save_html, env) == Finally(Handlers(TryBody(url, save_html, env)))

(* --------------------------- crawl_multiple -------------------------- *)

\* urls[:n] for an integer n
SlicePrefix(s, n) ==
    IF n >= 0 THEN SubSeq(s, 1, Min(n, Len(s)))
    ELSE SubSeq(s, 1, IF Len(s) + n > 0 THEN Len(s) + n ELSE 0)

\* crawl_multiple without the slice
SelectUrlsNoSlice(us, mp) == us

\* if max_pages: urls = urls[:max_pages]
SelectUrls(us, mp) ==
    IF mp # None /\ mp.n # 0 THEN SlicePrefix(us, mp.n) ELSE us

\* one JSON value per field of a record, as json.dump writes it
JsonValue(v) ==
    IF v = None THEN [json |-> "null"]
    ELSE [json |-> "string", s |-> v.s]

JsonObject(d) ==
    [url |-> [json |-> "string", s |-> d.url],
     title |-> JsonValue(d.title),
     status_code |-> [json |-> "number", n |-> d.status_code],
     num_tables |-> [json |-> "number", n |-> d.num_tables],
     num_links |-> [json |-> "number", n |-> d.num_links],
     content_length |-> [json |-> "number", n |-> d.content_length],
     crawl_time_seconds |-> [json |-> "number", n |-> d.crawl_time_seconds]]

\* json.dump(results, f, indent=2)
JsonDump(rs) == [k \in DOMAIN rs |-> JsonObject(rs[k])]

\* the states of data/processed/crawl_results.json
NoFile == [kind |-> "absent"]
PartialFile == [kind |-> "partial"]
JsonFile(items) == [kind |-> "json", items |-> items]

\* what an earlier run left at the results path
PriorFile == JsonFile(JsonDump(<<PageData("https://www.nba.com/stats",
                                           EnvOk(DocHome, 13))>>))

SaveOutcomes == {"ok", "open_fails", "dump_fails"}

\* the results file opened with mode 'a' instead of 'w'
SaveResultsAppend(old, rs, io) ==
    CASE io = "ok"         -> IF old.kind = "json"
                              THEN JsonFile(old.items \o JsonDump(rs))
                              ELSE JsonFile(JsonDump(rs))
      [] io = "open_fails" -> old
      [] io = "dump_fails" -> PartialFile

\* with open(output_file, 'w') as f: json.dump(results, f, indent=2)
SaveResults(old, rs, io) ==
    CASE io = "ok"         -> JsonFile(JsonDump(rs))
      [] io = "open_fails" -> old
      [] io = "dump_fails" -> PartialFile

CapDomain == {None} \cup {PyInt(n) : n \in 0..MaxCap}

UrlLists == UNION {[1..n -> URLs] : n \in 0..MaxUrls}

(* -------------------------- generate_report -------------------------- *)

\* the average cut to two decimals instead of rounded
Fmt2fTruncate(total_ms, n) == {total_ms \div (10 * n)}

\* "{avg_time:.2f}" of avg_time = total_ms / n milliseconds, in hundredths
\* of a second: the nearest hundredth; at an exact decimal tie the binary
\* value of the float decides, so both neighbours are possible
Fmt2f(total_ms, n) ==
    LET q == total_ms \div (10 * n)
        r == total_ms % (10 * n)
    IN  IF 2 * r < 10 * n THEN {q}
        ELSE IF 2 * r > 10 * n THEN {q + 1}
        ELSE {q, q + 1}

\* f"{result['title']}"
PyFormat(v) == IF v = None THEN "None" ELSE v.s

NoDataReport == [text |-> "No data to report"]

\* generate_report without "if not results: return ..."
GenerateReportNoGuard(rs) ==
    LET total_pages == Len(rs)
        total_tables == SumSeq([k \in DOMAIN rs |-> rs[k].num_tables])
        total_links == SumSeq([k \in DOMAIN rs |-> rs[k].num_links])
        total_ms == SumSeq([k \in DOMAIN rs |-> rs[k].crawl_time_seconds])
    IN  {[text |-> "NBA Web Crawler Report",
          pages |-> total_pages,
          tables |-> total_tables,
          links |-> total_links,
          avg_time_2f |-> c,
          listing |-> [k \in DOMAIN rs |->
                         [i |-> k, title |-> PyFormat(rs[k].title),
                          tables |-> rs[k].num_tables]]]
         : c \in IF total_pages = 0 THEN {0}
                 ELSE Fmt2f(total_ms, total_pages)}

\* the reports generate_report(results) can return
GenerateReportOf(rs) ==
    IF rs = <<>> THEN {NoDataReport}
    ELSE LET total_pages == Len(rs)
             total_tables == SumSeq([k \in DOMAIN rs |-> rs[k].num_tables])
             total_links == SumSeq([k \in DOMAIN rs |-> rs[k].num_links])
             total_ms == SumSeq([k \in DOMAIN rs |-> rs[k].crawl_time_seconds])
         IN  {[text |-> "NBA Web Crawler Report",
               pages |-> total_pages,
               tables |-> total_tables,
               links |-> total_links,
               avg_time_2f |-> c,
               listing |-> [k \in DOMAIN rs |->
                              [i |-> k, title |-> PyFormat(rs[k].title),
                               tables |-> rs[k].num_tables]]]
              : c \in Fmt2f(total_ms, total_pages)}

(* ------------------------------ actions ------------------------------ *)

Init ==
    /\ pc = "idle"
    /\ urls_arg = <<>>
    /\ max_pages = None
    /\ urls = <<>>
    /\ results = <<>>
    /\ calls = <<>>
    /\ rawfiles = {}
    /\ results_file = PriorFile
    /\ file_at_start = NoFile
    /\ ret = None
    /\ exc = "none"
    /\ report = None

CallRecord(url, save_html, env, r) ==
    [url |-> url, save_html |-> save_html, env |-> env,
     events |-> r.events, slept |-> r.slept, ret |-> r.ret,
     raised |-> r.raised]

\* crawl_multiple(urls, max_pages) up to the loop
Start ==
    /\ pc = "idle"
    /\ \E us \in UrlLists, mp \in CapDomain :
          /\ urls_arg' = us
          /\ max_pages' = mp
          /\ urls' = SelectUrls(us, mp)
    /\ results' = <<>>
    /\ file_at_start' = results_file
    /\ pc' = "loop"
    /\ UNCHANGED <<calls, rawfiles, results_file, ret, exc, report>>

\* an accumulator that skips a record it already holds
AccumulateDedup(rs, data) ==
    IF Truthy(data) /\ \A k \in DOMAIN rs : rs[k] # data
    THEN Append(rs, data) ELSE rs

\* if data: results.append(data)
Accumulate(rs, data) == IF Truthy(data) THEN Append(rs, data) ELSE rs

\* one iteration of "for i, url in enumerate(urls, 1)"
CrawlNext ==
    /\ pc = "loop"
    /\ Len(calls) < Len(urls)
    /\ \E env \in Envs :
          LET url == urls[Len(calls) + 1]
              r == CrawlPage(url, TRUE, env)
          IN  /\ calls' = Append(calls, CallRecord(url, TRUE, env, r))
              /\ rawfiles' = rawfiles \cup r.raw
              /\ IF r.raised # "none"
                 THEN /\ pc' = "raised"
                      /\ exc' = r.raised
                      /\ results' = results
                 ELSE /\ pc' = "loop"
                      /\ exc' = exc
                      /\ results' = Accumulate(results, r.ret)
    /\ UNCHANGED <<urls_arg, max_pages, urls, results_file, file_at_start,
                   ret, report>>

\* the end of crawl_multiple: write crawl_results.json, return results
Save ==
    /\ pc = "loop"
    /\ Len(calls) = Len(urls)
    /\ \E io \in SaveOutcomes :
          /\ results_file' = SaveResults(results_file, results, io)
          /\ IF io = "ok"
             THEN /\ pc' = "returned"
                  /\ ret' = results
                  /\ exc' = exc
             ELSE /\ pc' = "raised"
                  /\ ret' = ret
                  /\ exc' = "OSError@save"
    /\ UNCHANGED <<urls_arg, max_pages, urls, results, calls, rawfiles,
                   file_at_start, report>>

\* report = crawler.generate_report(results)
GenerateReport ==
    /\ pc \in {"returned", "reported"}
    /\ report' \in GenerateReportOf(ret)
    /\ pc' = "reported"
    /\ UNCHANGED <<urls_arg, max_pages, urls, results, calls, rawfiles,
                   results_file, file_at_start, ret, exc>>

\* a caller invoking crawl_page(url, save_html) on its own
CallCrawlPage ==
    /\ pc = "idle"
    /\ \E url \in URLs, save_html \in BOOLEAN, env \in Envs :
          LET r == CrawlPage(url, save_html, env)
          IN  /\ calls' = Append(calls, CallRecord(url, save_html, env, r))
              /\ rawfiles' = rawfiles \cup r.raw
              /\ ret' = r.ret
              /\ exc' = r.raised
              /\ pc' = "page_done"
    /\ UNCHANGED <<urls_arg, max_pages, urls, results, results_file,
                   file_at_start, report>>

Next == Start \/ CrawlNext \/ Save \/ GenerateReport \/ CallCrawlPage

Spec == Init /\ [][Next]_vars

(* ----------------------------- properties ---------------------------- *)

\* crawl_multiple has been entered
InRun == pc \in {"loop", "returned", "reported", "raised"}
\* crawl_multiple has left its loop
LoopLeft == pc \in {"returned", "reported", "raised"}
\* crawl_multiple has returned
Returned == pc \in {"returned", "reported"}

IsPrefix(a, b) == Len(a) <= Len(b) /\ SubSeq(b, 1, Len(a)) = a

Count(events, e) == Cardinality({i \in DOMAIN events : events[i] = e})

\* the URLs the fetch capability was invoked on, in call order
Fetched == [k \in DOMAIN calls |-> calls[k].url]

\* the first min(len(L), C) URLs of L
FirstOf(us, c) == SubSeq(us, 1, Min(Len(us), c))

\* the four per-target failure kinds: timeout, network error, non-200, parse
IsFailureEnv(env) ==
    \/ env.get # "response"
    \/ env.status_code # HttpOk
    \/ env.parse # "ok"

\* the records of the calls that returned one, in call order
ReturnedRecords ==
    LET ok == SelectSeq(calls, LAMBDA c : c.ret # None)
    IN  [k \in DOMAIN ok |-> ok[k].ret]

JsonLoadValue(j) == IF j.json = "null" THEN None ELSE Str(j.s)

\* json.load of what JsonDump wrote
JsonLoad(items) ==
    [k \in DOMAIN items |->
        [url |-> items[k].url.s,
         title |-> JsonLoadValue(items[k].title),
         status_code |-> items[k].status_code.n,
         num_tables |-> items[k].num_tables.n,
         num_links |-> items[k].num_links.n,
         content_length |-> items[k].content_length.n,
         crawl_time_seconds |-> items[k].crawl_time_seconds.n]]

TotalMs(rs) == SumSeq([k \in DOMAIN rs |-> rs[k].crawl_time_seconds])

Abs(x) == IF x < 0 THEN -x ELSE x

CapLimits(c) ==
    /\ \A k \in DOMAIN calls : Count(calls[k].events, "get") = 1
    /\ IsPrefix(Fetched, FirstOf(urls_arg, c))
    /\ LoopLeft => Fetched = FirstOf(urls_arg, c)
    /\ Returned => Len(ret) <= Min(Len(urls_arg), c)

\* C1 as stated: for every cap C that is given (any integer handed in as
\* max_pages), the fetch is invoked exactly on the first min(len(L), C)
\* URLs of L, once each and in order, and len(result) <= min(len(L), C).
C1_AnyGivenCap ==
    (InRun /\ max_pages # None) => CapLimits(max_pages.n)

\* C1 amended: for every positive cap C, the fetch is invoked exactly on
\* the first min(len(L), C) URLs of L, once each and in order, and
\* len(result) <= min(len(L), C).
C1_PositiveCap ==
    (InRun /\ max_pages # None /\ max_pages.n > 0) => CapLimits(max_pages.n)

C1_Witness ==
    /\ pc = "returned"
    /\ max_pages = PyInt(2)
    /\ Len(urls_arg) = 3
    /\ Fetched = SubSeq(urls_arg, 1, 2)

\* C2: the sequence crawl_multiple accumulates and returns is exactly the
\* records the crawl_page calls returned, in the order of the supplied
\* targets: no placeholder for a failure, no reordering, no deduplication.
C2_ResultIsSuccessesInOrder ==
    InRun =>
        /\ IsPrefix(Fetched, urls_arg)
        /\ results = ReturnedRecords
        /\ Returned => ret = ReturnedRecords

C2_Witness ==
    /\ pc = "returned"
    /\ Len(calls) = 3
    /\ calls[2].ret = None
    /\ Len(ret) = 2
    /\ ret[1] = ret[2]

\* C3: a target that fails with a non-200 status, a network error, a parse
\* error or a timeout leaves no entry in the result, raises nothing out of
\* crawl_page, and every later selected target is still fetched.
C3_FailuresNonFatal ==
    InRun =>
        /\ \A k \in DOMAIN calls :
              IsFailureEnv(calls[k].env) =>
                  calls[k].ret = None /\ calls[k].raised = "none"
        /\ Len(results) <=
              Cardinality({k \in DOMAIN calls : ~IsFailureEnv(calls[k].env)})
        /\ IsPrefix(Fetched, urls)
        /\ LoopLeft => Fetched = urls

C3_Witness ==
    /\ pc = "returned"
    /\ Len(calls) = 3
    /\ calls[1].env = EnvConnError
    /\ calls[2].env = EnvHttp(404)
    /\ calls[3].ret # None
    /\ Len(ret) = 1

\* C4: a fetch that times out is reported with the "timed out" message,
\* which no other outcome produces, returns None, and is followed by one
\* pacing delay of PacingDelay seconds and nothing else before the next
\* target is fetched.
C4_TimeoutDistinctOneDelay ==
    /\ \A k \in DOMAIN calls :
          /\ calls[k].env.get = "Timeout" =>
                /\ calls[k].events = <<"get", "print_timed_out", "sleep">>
                /\ calls[k].slept = PacingDelay
                /\ calls[k].ret = None
                /\ calls[k].raised = "none"
          /\ Count(calls[k].events, "print_timed_out") > 0
                => calls[k].env.get = "Timeout"
    /\ (InRun /\ LoopLeft) => Len(calls) = Len(urls)

C4_Witness ==
    /\ pc = "loop"
    /\ Len(calls) = 2
    /\ calls[1].env = EnvTimeout
    /\ calls[2].url = urls[2]

\* C5: every crawl_page call sleeps the pacing delay exactly once, whatever
\* the exit path, and the sleep is its last step.
C5_OneDelayLast ==
    \A k \in DOMAIN calls :
        /\ Count(calls[k].events, "sleep") = 1
        /\ calls[k].events[Len(calls[k].events)] = "sleep"
        /\ calls[k].slept = PacingDelay

C5_Witness ==
    /\ Len(calls) = 3
    /\ calls[1].ret # None
    /\ calls[2].env = EnvHttp(500)
    /\ calls[3].env = EnvTimeout
    /\ \A k \in 1..3 : calls[k].events[Len(calls[k].events)] = "sleep"

\* C6: no exception leaves crawl_page; a failure of the fetch, the parse or
\* the raw-page write makes it return None; a record is returned only for a
\* response with status 200.
C6_NoExceptionNoneOnFailure ==
    \A k \in DOMAIN calls :
        /\ calls[k].raised = "none"
        /\ (\/ IsFailureEnv(calls[k].env)
            \/ (calls[k].save_html /\ calls[k].env.write # "ok"))
              => calls[k].ret = None
        /\ calls[k].ret # None =>
              /\ calls[k].env.get = "response"
              /\ calls[k].env.status_code = HttpOk
              /\ calls[k].ret.status_code = HttpOk

C6_Witness ==
    /\ Len(calls) = 2
    /\ calls[1].env = EnvWriteError
    /\ calls[1].ret = None
    /\ Count(calls[1].events, "open_raw") = 1
    /\ calls[2].ret # None

\* C7: the results file is not touched while targets are being processed,
\* and when crawl_multiple returns it holds exactly the returned sequence
\* (same records, same order) in place of what was there before, also when
\* that sequence is empty.
C7_ArtifactIsResult ==
    /\ pc = "loop" => results_file = file_at_start
    /\ Returned =>
          /\ results_file = JsonFile(JsonDump(ret))
          /\ JsonLoad(results_file.items) = ret

C7_Witness ==
    /\ pc = "returned"
    /\ file_at_start = PriorFile
    /\ Len(calls) = 2
    /\ calls[2].env = EnvHttp(500)
    /\ Len(ret) = 1
    /\ ret[1].num_tables = 2 /\ ret[1].num_links = 5
    /\ ret[1].status_code = HttpOk
    /\ results_file # PriorFile
    /\ Len(results_file.items) = 1

\* C8: generate_report of an empty sequence is the "No data to report"
\* sentinel, which carries no numeric field, however often it is called;
\* the report of a non-empty sequence is never the sentinel.
C8_EmptyGivesSentinel ==
    pc = "reported" =>
        /\ ret = <<>> =>
              /\ report = NoDataReport
              /\ DOMAIN report = {"text"}
        /\ ret # <<>> =>
              /\ report # NoDataReport
              /\ report.text # NoDataReport.text
              /\ report.pages = Len(ret)

C8_Witness ==
    /\ pc = "reported"
    /\ Len(calls) = 2
    /\ ret = <<>>
    /\ report = NoDataReport

\* C9 as stated: the mean the report carries equals sum(elapsed)/len(R)
\* (to within 1e-9 s; durations are whole milliseconds here, so any
\* difference is at least 1/len(R) ms and the test is exact equality).
C9_MeanExact ==
    (pc = "reported" /\ ret # <<>>) =>
        10 * report.avg_time_2f * Len(ret) = TotalMs(ret)

\* C9 amended: the mean the report carries is sum(elapsed)/len(R) rounded
\* to two decimals, so it is within 0.005 s (5 ms) of the exact mean.
C9_MeanRoundedTo2Decimals ==
    (pc = "reported" /\ ret # <<>>) =>
        Abs(10 * report.avg_time_2f * Len(ret) - TotalMs(ret)) <= 5 * Len(ret)

C9_Witness ==
    /\ pc = "reported"
    /\ Len(ret) = 2
    /\ TotalMs(ret) = 17
    /\ report.avg_time_2f = 1

\* C10: crawl_multiple is left by an exception only when the write of the
\* results file fails, after every selected target was processed; that
\* failure is not caught (nothing is returned); no crawl_page failure
\* leaves crawl_page or crawl_multiple.
C10_OnlySaveFailureAborts ==
    /\ \A k \in DOMAIN calls : calls[k].raised = "none"
    /\ pc = "raised" =>
          /\ exc = "OSError@save"
          /\ Len(calls) = Len(urls)
    /\ exc = "OSError@save" =>
          /\ pc = "raised"
          /\ ret = None
          /\ report = None
    /\ (InRun /\ results_file \notin {file_at_start, JsonFile(JsonDump(results))})
          => pc = "raised"

C10_Witness ==
    /\ pc = "raised"
    /\ exc = "OSError@save"
    /\ Len(calls) = 3
    /\ calls[1].env = EnvWriteError
    /\ calls[2].env = EnvParseError
    /\ calls[3].ret # None

\* the fetch answered 200 and the page parsed
FetchedAndParsed(c) ==
    /\ c.env.get = "response"
    /\ c.env.status_code = HttpOk
    /\ c.env.parse = "ok"

\* C11 as stated: for a fetch that answered 200 and parsed, crawl_page
\* returns the record built from that fetch whether the raw-page write is
\* disabled, succeeds or fails.
C11_RecordWhateverPersistence ==
    \A k \in DOMAIN calls :
        FetchedAndParsed(calls[k]) =>
            calls[k].ret = PageData(calls[k].url, calls[k].env)

\* C11 amended: for a fetch that answered 200 and parsed, crawl_page returns
\* the same record whether the raw-page write is disabled or succeeds, and
\* returns None when the write is attempted and fails.
C11_RecordUnlessWriteFails ==
    \A k \in DOMAIN calls :
        FetchedAndParsed(calls[k]) =>
            IF calls[k].save_html /\ calls[k].env.write # "ok"
            THEN calls[k].ret = None
            ELSE /\ calls[k].ret = PageData(calls[k].url, calls[k].env)
                 /\ calls[k].ret =
                       PageData(calls[k].url,
                                [calls[k].env EXCEPT !.write = "ok"])

C11_Witness ==
    /\ pc = "page_done"
    /\ ~calls[1].save_html
    /\ calls[1].env = EnvWriteError
    /\ ret = PageData(calls[1].url, EnvOk(DocHome, 4))
    /\ rawfiles = {}

\* the state of list position k within the run
TargetState(cs, k) ==
    IF k > Len(cs) THEN "Pending"
    ELSE IF cs[k].ret # None THEN "Recorded"
    ELSE IF Count(cs[k].events, "print_timed_out") > 0 THEN "TimedOut"
    ELSE IF Count(cs[k].events, "print_http_error") > 0 THEN "HttpError"
    ELSE "Error"

\* one position at a time leaves Pending; a position that left it is never
\* fetched again
ForwardOnly ==
    /\ \A k \in DOMAIN calls :
          /\ k \in DOMAIN calls'
          /\ calls'[k] = calls[k]
          /\ TargetState(calls', k) = TargetState(calls, k)
    /\ Len(calls') <= Len(calls) + 1
    /\ pc' \in {"loop", "returned", "reported", "raised"} =>
          /\ Len(calls') <= Len(urls')
          /\ \A k \in DOMAIN calls' :
                /\ calls'[k].url = urls'[k]
                /\ Count(calls'[k].events, "get") = 1
                /\ TargetState(calls', k) # "Pending"

\* C12: within a run every selected position is fetched at most once and
\* in list order; once a position has an outcome (recorded or failed) that
\* outcome never changes and the position is not fetched again: no retry.
C12_NoRetryForwardOnly == [][ForwardOnly]_vars

C12_Witness ==
    /\ pc = "returned"
    /\ Len(urls) = 3
    /\ Len(calls) = 3
    /\ urls[1] = urls[3]
    /\ TargetState(calls, 1) = "TimedOut"
    /\ TargetState(calls, 2) = "HttpError"
    /\ TargetState(calls, 3) = "Error"

\* C13: every record crawl_page returns has status 200 and a title that is
\* a string: the title text when the document has one, "No title" when the
\* title element is absent or carries no single string.
C13_TitleIsString ==
    \A k \in DOMAIN calls :
        calls[k].ret # None =>
            /\ calls[k].ret.status_code = HttpOk
            /\ calls[k].ret.title.py = "str"
            /\ calls[k].ret.title =
                  IF calls[k].env.doc.has_title
                     /\ calls[k].env.doc.title_string # None
                  THEN calls[k].env.doc.title_string
                  ELSE Str("No title")

====
